---- MODULE Spec2Model ----
(***************************************************************************)
(* Model of src/app.py: a Streamlit script that reads DATA.xlsx into a     *)
(* data frame, tags the rows with a cohort, normalises coded columns to    *)
(* labels and renders one of six pages of per-cohort aggregates.           *)
(*                                                                         *)
(* One run of the script is: Load (lines 20-60), Sidebar (lines 62-82),    *)
(* then the page selected in the sidebar (lines 133-389).  Every widget    *)
(* interaction reruns the script from the top on the same file.            *)
(***************************************************************************)
EXTENDS Integers, Sequences, FiniteSets, TLC

VARIABLES
    file,    \* the spreadsheet on disk: header row, number of rows, row pattern
    pc,      \* position of the script: "start", "sidebar", "page", "rendered", "failed", "stopped"
    df,      \* the module-level data frame (NoFrame before a successful load)
    pain_cols, \* the labels of the columns the Yes/No loop converted
    error,   \* the exception class reported by st.error or raised by a page ("" when none)
    page,    \* the page selected with the sidebar radio ("" before the sidebar)
    info,    \* the sidebar's "Dataset Information" numbers
    view     \* the data handed to the charts and tables of the rendered page

vars == <<file, pc, df, pain_cols, error, page, info, view>>

(***************************************************************************)
(* Bounds of the model and constants of the program.                       *)
(***************************************************************************)
\* the cohort boundary of line 27
GroupBoundary == 20
\* the largest number of data rows of the spreadsheet
MaxRows == 22
\* the rows of the spreadsheet repeat a pattern of this many sample rows
PatLen == 2

(***************************************************************************)
(* Cell values.  A cell is an integer, a string or NaN (a missing value);  *)
(* the three are kept apart so that 1 = 'Yes' is FALSE, as in pandas.      *)
(***************************************************************************)
IntCell(k) == [t |-> "int", i |-> k, s |-> ""]
StrCell(x) == [t |-> "str", i |-> 0, s |-> x]
NaN == [t |-> "nan", i |-> 0, s |-> ""]

IsNaN(c) == c.t = "nan"

(***************************************************************************)
(* Column labels.  A header cell with text gives a column of that name; an *)
(* empty header cell at position k gives the column "Unnamed: k".  pad     *)
(* says that the header text carries incidental whitespace.                *)
(***************************************************************************)
Named(n) == [name |-> n, num |-> -1, pad |-> FALSE]
Padded(n) == [name |-> n, num |-> -1, pad |-> TRUE]
Unnamed(k) == [name |-> "Unnamed", num |-> k, pad |-> FALSE]

\* str.strip() on one label (line 24)
Strip(label) == [label EXCEPT !.pad = FALSE]

\* 'Unnamed' in str(col): no named column of the schema has a name containing "Unnamed"
IsUnnamed(label) == label.name = "Unnamed"

\* the decimal digits of k, most significant first: str(k)
RECURSIVE Digits(_)
Digits(k) == IF k < 10 THEN <<k>> ELSE Append(Digits(k \div 10), k % 10)

\* 'Unnamed: d' in str(col) for a one-digit d: "Unnamed: " occurs once in the
\* label, so the match is at the start and d is the first digit of the number
UnnamedPrefix(label, d) == IsUnnamed(label) /\ Head(Digits(label.num)) = d

BodyParts == <<"NECK", "SHOULDER", "ELBOW", "WRIST / HAND", "UPPER BACK",
               "LOWER BACK", "HIP", "KNEE", "ANKLE / FEET">>

Range(s) == {s[i] : i \in 1..Len(s)}

BodyPartSet == Range(BodyParts)

(***************************************************************************)
(* The spreadsheet.  A layout lists the header cells that carry text, each *)
(* with the number of empty header cells that follow it (the follow-up     *)
(* questions of a body region); the labels are numbered by position as     *)
(* pandas.read_excel numbers them.                                         *)
(***************************************************************************)
Entry(n, k) == [name |-> n, follow |-> k]

FullLayout ==
    << Entry("PARTICIPANT ID", 0), Entry("GENDER", 0), Entry("BMI CATEGORY", 0),
       Entry("WORKING PLACE", 0), Entry("THECNNIQUE USED", 0), Entry("REBA_CATEGORY", 0),
       Entry("NECK", 2), Entry("SHOULDER", 1), Entry("ELBOW", 0),
       Entry("WRIST / HAND", 1), Entry("UPPER BACK", 1), Entry("LOWER BACK", 1),
       Entry("HIP", 0), Entry("KNEE", 0), Entry("ANKLE / FEET", 0) >>

\* the columns whose absence the model tries, one at a time
Droppable == {"GENDER", "THECNNIQUE USED", "REBA_CATEGORY", "NECK", "SHOULDER", "HIP"}

RECURSIVE Without(_, _)
Without(layout, n) ==
    IF layout = <<>> THEN <<>>
    ELSE IF Head(layout).name = n THEN Without(Tail(layout), n)
    ELSE <<Head(layout)>> \o Without(Tail(layout), n)

\* the header row of a layout: column labels, numbered from position pos
RECURSIVE Header(_, _, _)
Header(layout, pos, padded) ==
    IF layout = <<>> THEN <<>>
    ELSE LET e == Head(layout)
             first == IF padded THEN Padded(e.name) ELSE Named(e.name)
         IN  <<first>> \o [k \in 1..e.follow |-> Unnamed(pos + k)]
                 \o Header(Tail(layout), pos + 1 + e.follow, padded)

Headers ==
    {Header(FullLayout, 0, FALSE), Header(FullLayout, 0, TRUE)}
        \cup {Header(Without(FullLayout, n), 0, FALSE) : n \in Droppable}

\* One respondent as coded in the sheet: the four demographic codes, the REBA
\* category, the answer to the 12-month question of every body region (pain)
\* and the answer to every follow-up question (follow).
Row(g, b, w, t, r, p, f) ==
    [gender |-> g, bmi |-> b, place |-> w, tech |-> t, reba |-> r, pain |-> p, follow |-> f]

SampleRows ==
    { Row(IntCell(1), IntCell(2), IntCell(1), IntCell(1), IntCell(2), IntCell(0), IntCell(0)),
      Row(IntCell(2), IntCell(3), IntCell(2), IntCell(2), IntCell(3), IntCell(1), IntCell(1)),
      Row(IntCell(3), IntCell(4), IntCell(3), IntCell(0), IntCell(4), IntCell(1), IntCell(0)),
      Row(IntCell(2), IntCell(1), IntCell(1), IntCell(3), NaN, IntCell(0), IntCell(1)),
      Row(IntCell(1), IntCell(0), IntCell(2), IntCell(1), IntCell(3), NaN, IntCell(1)) }

RowCounts == {1} \cup ((GroupBoundary - 1)..MaxRows)

Files == [header : Headers, n : RowCounts, pattern : [1..PatLen -> SampleRows]]

\* the sample row at data row i (0-based)
RowAt(f, i) == f.pattern[(i % PatLen) + 1]

\* the cell of data row i (0-based) under the column label
RawCell(f, label, i) ==
    LET r == RowAt(f, i)
    IN  CASE label.name = "PARTICIPANT ID" -> IntCell(i + 1)
          [] label.name = "GENDER" -> r.gender
          [] label.name = "BMI CATEGORY" -> r.bmi
          [] label.name = "WORKING PLACE" -> r.place
          [] label.name = "THECNNIQUE USED" -> r.tech
          [] label.name = "REBA_CATEGORY" -> r.reba
          [] label.name \in BodyPartSet -> r.pain
          [] OTHER -> r.follow

(***************************************************************************)
(* Data frames: a sequence of column labels and, per column, its dtype and *)
(* its cells in row order.                                                 *)
(***************************************************************************)
NoFrame == [columns |-> <<>>, data |-> <<>>]

\* the dtype pandas infers for a column of integers and missing values
InferDtype(cells) ==
    IF cells = <<>> THEN "object"
    ELSE IF \A j \in 1..Len(cells) : cells[j].t = "int" THEN "int64"
    ELSE IF \A j \in 1..Len(cells) : cells[j].t \in {"int", "nan"} THEN "float64"
    ELSE "object"

Column(cells) == [dtype |-> InferDtype(cells), cells |-> cells]

\* pd.read_excel("DATA.xlsx")
load_data(f) ==
    [columns |-> f.header,
     data |-> [c \in 1..Len(f.header) |->
                  Column([j \in 1..f.n |-> RawCell(f, f.header[c], j - 1)])]]

NumRows(d) == IF d.data = <<>> THEN 0 ELSE Len(d.data[1].cells)

\* df.columns.get_loc(name), 1-based; 0 when the label is absent (KeyError)
Loc(d, label) ==
    IF \E c \in 1..Len(d.columns) : d.columns[c] = label
    THEN CHOOSE c \in 1..Len(d.columns) :
            /\ d.columns[c] = label
            /\ \A b \in 1..(c - 1) : d.columns[b] # label
    ELSE 0

HasColumn(d, n) == Loc(d, Named(n)) # 0

\* df[n], for a column that exists
Series(d, n) == d.data[Loc(d, Named(n))]

\* df[n] = cells
SetColumn(d, n, cells) ==
    IF HasColumn(d, n)
    THEN [d EXCEPT !.data[Loc(d, Named(n))] = Column(cells)]
    ELSE [columns |-> Append(d.columns, Named(n)), data |-> Append(d.data, Column(cells))]


(***************************************************************************)
(* Load and normalisation: the try block of lines 20-60.                   *)
(***************************************************************************)
\* line 24: df.columns = df.columns.str.strip()
StripColumns(d) == [d EXCEPT !.columns = [c \in 1..Len(d.columns) |-> Strip(d.columns[c])]]

\* GroupLabel with the boundary row on the wrong side
GroupLabelInclusive(i) == IF i <= GroupBoundary THEN "General" ELSE "Neuro"

\* line 27: the cohort of the row at position i (0-based)
GroupLabel(i) == IF i < GroupBoundary THEN "General" ELSE "Neuro"

\* line 27: df['GROUP'] = [... for i in range(len(df))]
AssignGroup(d) ==
    SetColumn(d, "GROUP", [j \in 1..NumRows(d) |-> StrCell(GroupLabel(j - 1))])

GenderMap == (1 :> "Male") @@ (2 :> "Female")
BmiMap == (0 :> "Unknown") @@ (1 :> "Underweight") @@ (2 :> "Normal") @@ (3 :> "Overweight")
PlaceMap == (1 :> "Hospital") @@ (2 :> "Clinic") @@ (3 :> "Private Practice")
TechniqueMap ==
    (0 :> "None") @@ (1 :> "Manual Therapy") @@ (2 :> "Exercise Therapy") @@ (3 :> "Electrotherapy")
YesNoMap == (0 :> "No") @@ (1 :> "Yes")

\* Series.map(dict) on one cell: a key of the dict gives its label, anything else NaN
MapCell(table, c) ==
    IF c.t = "int" /\ c.i \in DOMAIN table THEN StrCell(table[c.i]) ELSE NaN

\* df[n] = df[n].map(table), for a column that exists
MapColumn(d, n, table) ==
    LET cells == Series(d, n).cells
    IN  SetColumn(d, n, [j \in 1..Len(cells) |-> MapCell(table, cells[j])])

\* the columns lines 30-47 read, in the order they are read
MappedColumns == <<"GENDER", "BMI CATEGORY", "WORKING PLACE", "THECNNIQUE USED">>

\* lines 30-47
MapCategoricals(d) ==
    MapColumn(MapColumn(MapColumn(MapColumn(d, "GENDER", GenderMap),
        "BMI CATEGORY", BmiMap), "WORKING PLACE", PlaceMap), "THECNNIQUE USED", TechniqueMap)

\* lines 52-53: the named columns the Yes/No loop leaves alone
NotPainColumns == {"PARTICIPANT ID", "AGE", "HEIGHT", "WEIGHT", "BMI", "YEAR OF EXPERIENCE",
                   "REBA SCORE", "REBA_CATEGORY", "GROUP"}

\* lines 52-54: the test that makes a column a pain column
IsPainColumn(d, c) ==
    /\ ~IsUnnamed(d.columns[c])
    /\ d.columns[c].name \notin NotPainColumns
    /\ d.data[c].dtype = "int64"
    /\ \A j \in 1..Len(d.data[c].cells) : d.data[c].cells[j].i \in {0, 1}

\* lines 50-56: pain_cols, in column order
PainCols(d) ==
    LET RECURSIVE Collect(_)
        Collect(c) == IF c > Len(d.columns) THEN <<>>
                      ELSE IF IsPainColumn(d, c) THEN <<d.columns[c]>> \o Collect(c + 1)
                      ELSE Collect(c + 1)
    IN  Collect(1)

\* lines 51-56: df[col] = df[col].map({0: 'No', 1: 'Yes'}) for every pain column
NormalizePain(d) ==
    [d EXCEPT !.data = [c \in 1..Len(d.columns) |->
        IF IsPainColumn(d, c)
        THEN Column([j \in 1..Len(d.data[c].cells) |-> MapCell(YesNoMap, d.data[c].cells[j])])
        ELSE d.data[c]]]

\* the frame before the first column lookup: lines 21-27
Prepared(f) == AssignGroup(StripColumns(load_data(f)))

\* the columns whose lookup in lines 30-47 raises KeyError
MissingMapped(d) == {c \in 1..Len(MappedColumns) : ~HasColumn(d, MappedColumns[c])}

\* lines 20-60: a lookup of an absent column raises KeyError, the except branch
\* reports it and st.stop() ends the run; otherwise df is the normalised frame
Load ==
    /\ pc = "start"
    /\ LET d == Prepared(file)
           mapped == MapCategoricals(d)
       IN  IF MissingMapped(d) # {}
           THEN /\ pc' = "stopped"
                /\ error' = "KeyError"
                /\ df' = NoFrame
                /\ pain_cols' = <<>>
           ELSE /\ pc' = "sidebar"
                /\ error' = ""
                /\ df' = NormalizePain(mapped)
                /\ pain_cols' = PainCols(mapped)
    /\ UNCHANGED <<file, page, info, view>>

(***************************************************************************)
(* Sidebar: lines 62-82.                                                   *)
(***************************************************************************)
Pages == {"Overview", "REBA Score Analysis", "Pain Incidence",
          "Body Part Comparison", "Detailed Insights", "Data Explorer"}

\* the 1-based rows of the frame whose GROUP is g: df[df['GROUP'] == g]
GroupRows(d, g) ==
    LET cells == Series(d, "GROUP").cells
    IN  {j \in 1..Len(cells) : cells[j] = StrCell(g)}

NoInfo == [total |-> 0, general |-> 0, neuro |-> 0]

\* lines 74-82: the radio selects the page, the dataset information is written
Sidebar ==
    /\ pc = "sidebar"
    /\ \E p \in Pages : page' = p
    /\ info' = [total |-> NumRows(df),
                general |-> Cardinality(GroupRows(df, "General")),
                neuro |-> Cardinality(GroupRows(df, "Neuro"))]
    /\ pc' = "page"
    /\ UNCHANGED <<file, df, pain_cols, error, view>>


(***************************************************************************)
(* Aggregates.  A percentage is kept as the exact fraction num / den, and  *)
(* the mean of no values is the float NaN.                                 *)
(***************************************************************************)
Frac(n, d) == [nan |-> FALSE, num |-> n, den |-> d]
NaNFrac == [nan |-> TRUE, num |-> 0, den |-> 0]

Groups == <<"General", "Neuro">>

\* (cells == 'Yes').mean() * 100 over the rows: NaN compares unequal to 'Yes'
\* and stays in the denominator
YesMean(cells, rows) ==
    IF rows = {} THEN NaNFrac
    ELSE Frac(100 * Cardinality({j \in rows : cells[j] = StrCell("Yes")}), Cardinality(rows))

\* the distinct values of the cells of the rows, NaN dropped
Observed(cells, rows) == {cells[j] : j \in {k \in rows : ~IsNaN(cells[k])}}

\* Series.value_counts(): a count for every observed value, NaN dropped
ValueCounts(cells, rows) ==
    [v \in Observed(cells, rows) |-> Cardinality({j \in rows : cells[j] = v})]

\* lines 108-118: the rows of pain_data, in the order they are appended
PainData(d) ==
    LET rows == [g \in 1..Len(Groups) |-> GroupRows(d, Groups[g])]
        RECURSIVE Collect(_, _)
        Collect(p, g) ==
            IF p > Len(BodyParts) THEN <<>>
            ELSE LET rest == IF g < Len(Groups) THEN Collect(p, g + 1) ELSE Collect(p + 1, 1)
                 IN  IF HasColumn(d, BodyParts[p])
                     THEN <<[part |-> BodyParts[p], group |-> Groups[g],
                             incidence |-> YesMean(Series(d, BodyParts[p]).cells, rows[g])]>>
                          \o rest
                     ELSE rest
    IN  Collect(1, 1)

\* df.groupby('GROUP')[cols].apply(lambda x: (x == 'Yes').mean() * 100): one row
\* for every group that has rows, one percentage per column of cols
GroupYesMeans(d, cols) ==
    LET RowOf(g) == LET rows == GroupRows(d, g)
                    IN  [group |-> g,
                         values |-> [c \in 1..Len(cols) |->
                                        YesMean(d.data[Loc(d, cols[c])].cells, rows)]]
        RECURSIVE Collect(_)
        Collect(g) == IF g > Len(Groups) THEN <<>>
                      ELSE IF GroupRows(d, Groups[g]) = {} THEN Collect(g + 1)
                      ELSE <<RowOf(Groups[g])>> \o Collect(g + 1)
    IN  Collect(1)

\* df.groupby('GROUP')[label].value_counts(normalize=True).unstack().fillna(0) * 100:
\* one row for every group with a non-missing value, one column for every value
\* observed in the frame, the share of the group's non-missing values
NormalizedCounts(d, label) ==
    LET cells == d.data[Loc(d, label)].cells
        all == 1..NumRows(d)
        values == Observed(cells, all)
        answered == [g \in 1..Len(Groups) |->
                        {j \in GroupRows(d, Groups[g]) : ~IsNaN(cells[j])}]
        RowOf(g) == [group |-> Groups[g],
                     values |-> [v \in values |->
                         Frac(100 * Cardinality({j \in answered[g] : cells[j] = v}),
                              Cardinality(answered[g]))]]
        RECURSIVE Collect(_)
        Collect(g) == IF g > Len(Groups) THEN <<>>
                      ELSE IF answered[g] = {} THEN Collect(g + 1)
                      ELSE <<RowOf(g)>> \o Collect(g + 1)
    IN  Collect(1)

\* df.groupby(['GROUP', n]).size(): a count for every observed (group, value)
\* pair; rows whose value is NaN belong to no pair
GroupSizes(d, n) ==
    LET cells == Series(d, n).cells
    IN  {[group |-> g, value |-> v, count |-> ValueCounts(cells, GroupRows(d, g))[v]] :
            <<g, v>> \in {gv \in Range(Groups) \X Observed(cells, 1..NumRows(d)) :
                            gv[2] \in Observed(cells, GroupRows(d, gv[1]))}}

\* the sum of the integer cells of the rows
SumCells(cells, rows) ==
    LET RECURSIVE Upto(_)
        Upto(j) == IF j = 0 THEN 0
                   ELSE (IF j \in rows THEN cells[j].i ELSE 0) + Upto(j - 1)
    IN  Upto(Len(cells))

\* the k-th smallest integer among the cells of the rows (k from 1)
Smallest(cells, rows, k) ==
    CHOOSE v \in {cells[j].i : j \in rows} :
        /\ Cardinality({j \in rows : cells[j].i <= v}) >= k
        /\ Cardinality({j \in rows : cells[j].i < v}) < k

\* Series.describe() of the rows: count, mean and median ('50%') of the
\* non-missing values; the median is num / den with den = 2
Describe(cells, rows) ==
    LET valid == {j \in rows : ~IsNaN(cells[j])}
        n == Cardinality(valid)
    IN  [count |-> n,
         mean |-> IF n = 0 THEN NaNFrac ELSE Frac(SumCells(cells, valid), n),
         median |-> IF n = 0 THEN NaNFrac
                    ELSE Frac(Smallest(cells, valid, (n + 1) \div 2)
                                + Smallest(cells, valid, (n + 2) \div 2), 2)]

\* lines 95-96: the counts behind the pie chart of one cohort
create_pie_chart(d, g) == ValueCounts(Series(d, "REBA_CATEGORY").cells, GroupRows(d, g))


(***************************************************************************)
(* Pages: lines 133-389.  A page that raises leaves the run "failed" with  *)
(* the exception class in error and with the data computed before it.      *)
(***************************************************************************)
NoView == [status |-> "none"]

Render(v) ==
    /\ pc' = "rendered"
    /\ error' = ""
    /\ view' = v
    /\ UNCHANGED <<file, df, pain_cols, page, info>>

Raise(e, v) ==
    /\ pc' = "failed"
    /\ error' = e
    /\ view' = v
    /\ UNCHANGED <<file, df, pain_cols, page, info>>

\* lines 133-178: px.violin validates y='REBA_CATEGORY' before the breakdowns
Overview ==
    /\ pc = "page" /\ page = "Overview"
    /\ IF ~HasColumn(df, "REBA_CATEGORY")
       THEN Raise("ValueError", [status |-> "failed"])
       ELSE Render([status |-> "ok",
                    demo_df |-> GroupSizes(df, "GENDER"),
                    bmi_df |-> GroupSizes(df, "BMI CATEGORY"),
                    tech_df |-> GroupSizes(df, "THECNNIQUE USED")])

\* lines 180-239: px.histogram validates x='REBA_CATEGORY' before the statistics
RebaScoreAnalysis ==
    /\ pc = "page" /\ page = "REBA Score Analysis"
    /\ IF ~HasColumn(df, "REBA_CATEGORY")
       THEN Raise("ValueError", [status |-> "failed"])
       ELSE LET cells == Series(df, "REBA_CATEGORY").cells
            IN  Render([status |-> "ok",
                        general_stats |-> Describe(cells, GroupRows(df, "General")),
                        neuro_stats |-> Describe(cells, GroupRows(df, "Neuro")),
                        general_pie |-> create_pie_chart(df, "General"),
                        neuro_pie |-> create_pie_chart(df, "Neuro")])

\* the labels of the frame that satisfy 'Unnamed: d' in str(col), in column order
UnnamedWith(d, digit) ==
    LET RECURSIVE Collect(_)
        Collect(c) == IF c > Len(d.columns) THEN <<>>
                      ELSE IF UnnamedPrefix(d.columns[c], digit)
                           THEN <<d.columns[c]>> \o Collect(c + 1)
                      ELSE Collect(c + 1)
    IN  Collect(1)

\* line 254
NeckCols(d) == <<Named("NECK")>> \o UnnamedWith(d, 1)
\* line 260
UpperBodyCols(d) == <<Named("UPPER BACK")>> \o UnnamedWith(d, 3)
\* line 266
LowerBodyCols == <<Named("LOWER BACK"), Named("HIP"), Named("KNEE"), Named("ANKLE / FEET")>>

AllPresent(d, cols) == \A c \in 1..Len(cols) : Loc(d, cols[c]) # 0

\* lines 241-268: the chart of create_body_part_comparison, then the three tabs;
\* px.bar raises on a frame without columns, a column selection on an absent label
PainIncidence ==
    /\ pc = "page" /\ page = "Pain Incidence"
    /\ LET neck_cols == NeckCols(df)
           ub_cols == UpperBodyCols(df)
           v0 == [status |-> "failed", pain_data |-> PainData(df),
                  neck_cols |-> <<>>, neck_df |-> <<>>,
                  ub_cols |-> <<>>, ub_df |-> <<>>, lb_df |-> <<>>]
           v1 == [v0 EXCEPT !.neck_cols = neck_cols,
                            !.neck_df = GroupYesMeans(df, neck_cols)]
           v2 == [v1 EXCEPT !.ub_cols = ub_cols,
                            !.ub_df = GroupYesMeans(df, ub_cols)]
           v3 == [v2 EXCEPT !.lb_df = GroupYesMeans(df, LowerBodyCols), !.status = "ok"]
       IN  IF v0.pain_data = <<>> THEN Raise("ValueError", v0)
           ELSE IF ~AllPresent(df, neck_cols) THEN Raise("KeyError", v0)
           ELSE IF ~AllPresent(df, ub_cols) THEN Raise("KeyError", v1)
           ELSE IF ~AllPresent(df, LowerBodyCols) THEN Raise("KeyError", v2)
           ELSE Render(v3)

\* body_part in str(label): no label of the frame has a name that contains a
\* body part's name and more
NameContains(label, part) == label.name = part

\* df.columns[df.columns.get_loc(col) - 1] for the column at 1-based c: the
\* column before it, and the last column for the first one (index -1)
PrevColumn(d, c) == IF c = 1 THEN d.columns[Len(d.columns)] ELSE d.columns[c - 1]

\* lines 290-294: the 1-based position of seven_day_col, 0 for None
SevenDayCol(d, part) ==
    LET hits == {c \in 1..Len(d.columns) :
                    IsUnnamed(d.columns[c]) /\ NameContains(PrevColumn(d, c), part)}
    IN  IF hits = {} THEN 0 ELSE CHOOSE c \in hits : \A b \in hits : c <= b

\* lines 307-311: the body part and the unnamed columns among the next three
RelatedCols(d, part) ==
    LET at == Loc(d, Named(part))
        RECURSIVE Collect(_)
        Collect(i) == IF i > 3 THEN <<>>
                      ELSE IF at + i <= Len(d.columns) /\ IsUnnamed(d.columns[at + i])
                           THEN <<d.columns[at + i]>> \o Collect(i + 1)
                      ELSE Collect(i + 1)
    IN  <<Named(part)>> \o Collect(1)

\* lines 270-314: the selectbox gives body_part; the first selection of the
\* column raises KeyError when the frame has no such column
BodyPartComparison ==
    /\ pc = "page" /\ page = "Body Part Comparison"
    /\ \E body_part \in BodyPartSet :
        IF ~HasColumn(df, body_part)
        THEN Raise("KeyError", [status |-> "failed", body_part |-> body_part])
        ELSE LET seven == SevenDayCol(df, body_part)
                 related == RelatedCols(df, body_part)
             IN  Render([status |-> "ok",
                         body_part |-> body_part,
                         incidence_df |-> NormalizedCounts(df, Named(body_part)),
                         seven_day_col |-> seven,
                         recent_df |-> IF seven = 0 THEN <<>>
                                       ELSE NormalizedCounts(df, df.columns[seven]),
                         related_cols |-> related,
                         char_df |-> GroupYesMeans(df, related)])

\* lines 316-352: fixed text
DetailedInsights ==
    /\ pc = "page" /\ page = "Detailed Insights"
    /\ Render([status |-> "ok"])

\* Series.unique(): the distinct values of a column, NaN among them
Unique(cells) == {cells[j] : j \in 1..Len(cells)}

\* lines 354-389: the group filter is chosen, the other filters keep their
\* default (every value of the column, the whole REBA range).  int() of the
\* minimum of a column without values raises ValueError.
DataExplorer ==
    /\ pc = "page" /\ page = "Data Explorer"
    /\ IF ~HasColumn(df, "REBA_CATEGORY")
       THEN Raise("KeyError", [status |-> "failed"])
       ELSE LET reba == Series(df, "REBA_CATEGORY").cells
                all == 1..NumRows(df)
                values == {c.i : c \in Observed(reba, all)}
            IN  IF values = {}
                THEN Raise("ValueError", [status |-> "failed"])
                ELSE \E group_filter \in SUBSET Unique(Series(df, "GROUP").cells) :
                        /\ LET lo == CHOOSE v \in values : \A w \in values : v <= w
                               hi == CHOOSE v \in values : \A w \in values : w <= v
                               group == Series(df, "GROUP").cells
                               gender == Series(df, "GENDER").cells
                               bmi == Series(df, "BMI CATEGORY").cells
                               gender_filter == Unique(gender)
                               bmi_filter == Unique(bmi)
                               kept == {j \in all :
                                   /\ group[j] \in group_filter
                                   /\ gender[j] \in gender_filter
                                   /\ bmi[j] \in bmi_filter
                                   /\ ~IsNaN(reba[j])
                                   /\ lo <= reba[j].i /\ reba[j].i <= hi}
                           IN  Render([status |-> "ok",
                                       group_filter |-> group_filter,
                                       reba_filter |-> <<lo, hi>>,
                                       filtered_df |-> kept])

\* a widget interaction reruns the script from the top on the same file
Rerun ==
    /\ pc \in {"rendered", "failed", "stopped"}
    /\ pc' = "start"
    /\ df' = NoFrame
    /\ pain_cols' = <<>>
    /\ error' = ""
    /\ page' = ""
    /\ info' = NoInfo
    /\ view' = NoView
    /\ UNCHANGED file

Init ==
    /\ file \in Files
    /\ pc = "start"
    /\ df = NoFrame
    /\ pain_cols = <<>>
    /\ error = ""
    /\ page = ""
    /\ info = NoInfo
    /\ view = NoView

Next ==
    \/ Load
    \/ Sidebar
    \/ Overview
    \/ RebaScoreAnalysis
    \/ PainIncidence
    \/ BodyPartComparison
    \/ DetailedInsights
    \/ DataExplorer
    \/ Rerun

Spec == Init /\ [][Next]_vars


(***************************************************************************)
(* Properties.                                                             *)
(***************************************************************************)
\* the frame exists: the load succeeded
Loaded == pc \in {"sidebar", "page", "rendered", "failed"}

\* the sheet as read, with trimmed headers and before any normalisation
Raw == StripColumns(load_data(file))

\* the names of the header cells of the sheet
HeaderNames == {file.header[c].name : c \in 1..Len(file.header)}

CohortRows(g) == GroupRows(df, g)

\* two fractions denote the same number (NaN only equals NaN here)
SameFrac(a, b) ==
    IF a.nan \/ b.nan THEN a.nan /\ b.nan ELSE a.num * b.den = b.num * a.den

InPercentRange(a) == ~a.nan /\ a.den > 0 /\ 0 <= a.num /\ a.num <= 100 * a.den

\* the sum of the counts of a value_counts result
RECURSIVE Total(_)
Total(counts) ==
    IF DOMAIN counts = {} THEN 0
    ELSE LET v == CHOOSE w \in DOMAIN counts : TRUE
         IN  counts[v] + Total([w \in DOMAIN counts \ {v} |-> counts[w]])

Min(a, b) == IF a < b THEN a ELSE b

\* C1: after a successful load the frame holds the rows of the sheet in sheet
\* order, the rows at positions 0..19 are tagged 'General' and every later row
\* 'Neuro', so every row is in exactly one cohort and the two cohort sizes the
\* sidebar reports add up to the number of rows.
CohortSplitPositional ==
    Loaded =>
        /\ NumRows(df) = file.n
        /\ Series(df, "PARTICIPANT ID").cells = Series(Raw, "PARTICIPANT ID").cells
        /\ \A j \in 1..file.n :
              LET tag == Series(df, "GROUP").cells[j]
              IN  /\ (j - 1 < GroupBoundary) => tag = StrCell("General")
                  /\ (j - 1 >= GroupBoundary) => tag = StrCell("Neuro")
        /\ CohortRows("General") \cap CohortRows("Neuro") = {}
        /\ Cardinality(CohortRows("General")) + Cardinality(CohortRows("Neuro")) = file.n
        /\ pc # "sidebar" =>
              /\ info.total = file.n
              /\ info.general = Min(file.n, GroupBoundary)
              /\ info.neuro = file.n - Min(file.n, GroupBoundary)

\* a sheet with more than 20 rows has been loaded and the sidebar shows both cohorts
CohortSplitWitness ==
    /\ pc = "page"
    /\ file.n > GroupBoundary
    /\ info.general = GroupBoundary
    /\ info.neuro = file.n - GroupBoundary
    /\ Series(df, "GROUP").cells[GroupBoundary + 1] = StrCell("Neuro")

\* C2: for each cohort the REBA category counts behind the risk-category
\* breakdown add up to the number of records of the cohort, also when records
\* of the cohort have no REBA category.
RebaCountsCoverCohort ==
    (pc = "rendered" /\ page = "REBA Score Analysis") =>
        /\ Total(view.general_pie) = Cardinality(CohortRows("General"))
        /\ Total(view.neuro_pie) = Cardinality(CohortRows("Neuro"))

\* C3: a pain prevalence percentage lies in [0, 100] for a cohort with records,
\* and for a cohort without records it is an explicit result, not a NaN handed
\* on to the chart and not a missing row of the table.
PrevalenceDefinedOrExplicit ==
    /\ (pc = "rendered" /\ page = "Pain Incidence") =>
          \A k \in 1..Len(view.pain_data) :
              LET e == view.pain_data[k]
              IN  IF CohortRows(e.group) # {} THEN InPercentRange(e.incidence)
                  ELSE ~e.incidence.nan
    /\ (pc = "rendered" /\ page = "Body Part Comparison") =>
          /\ \A g \in Range(Groups) :
                \E k \in 1..Len(view.char_df) : view.char_df[k].group = g
          /\ \A k \in 1..Len(view.char_df) :
                \A c \in 1..Len(view.char_df[k].values) :
                    CohortRows(view.char_df[k].group) # {}
                        => InPercentRange(view.char_df[k].values[c])

\* the rows of a cohort that answered the question of a column of the sheet
Answered(label, g) ==
    {j \in CohortRows(g) : ~IsNaN(Raw.data[Loc(Raw, label)].cells[j])}

\* the share of the answer 1 among the non-missing answers of a cohort to the
\* question of a column of the sheet
RawShare(label, g) ==
    LET cells == Raw.data[Loc(Raw, label)].cells
        answered == Answered(label, g)
    IN  IF answered = {} THEN NaNFrac
        ELSE Frac(100 * Cardinality({j \in answered : cells[j] = IntCell(1)}),
                  Cardinality(answered))

\* C4: the 12-month percentage of a (cohort, region) with answers is the
\* number of 'Yes' answers over the number of non-missing answers of the
\* cohort, and the 'Yes' percentage of the Body Part Comparison page is the
\* same number.
TwelveMonthShareOfAnswered ==
    /\ (pc = "rendered" /\ page = "Pain Incidence") =>
          \A k \in 1..Len(view.pain_data) :
              LET e == view.pain_data[k]
              IN  Answered(Named(e.part), e.group) # {} =>
                      SameFrac(e.incidence, RawShare(Named(e.part), e.group))
    /\ (pc = "rendered" /\ page = "Body Part Comparison") =>
          \A k \in 1..Len(view.incidence_df) :
              LET row == view.incidence_df[k]
              IN  StrCell("Yes") \in DOMAIN row.values =>
                      SameFrac(row.values[StrCell("Yes")],
                               YesMean(Series(df, view.body_part).cells, CohortRows(row.group)))

\* the body regions whose 12-month column the sheet does not have
AbsentRegions == BodyPartSet \ HeaderNames

\* C5: a body region whose column is absent from the sheet has, for both
\* cohorts, an entry in the pain prevalence result that is not 0%, and no view
\* fails on it.
AbsentRegionReported ==
    /\ (pc \in {"rendered", "failed"} /\ page = "Pain Incidence") =>
          \A p \in AbsentRegions :
              /\ pc # "failed"
              /\ \A g \in Range(Groups) :
                    \E k \in 1..Len(view.pain_data) :
                        /\ view.pain_data[k].part = p
                        /\ view.pain_data[k].group = g
                        /\ view.pain_data[k].incidence # Frac(0, Cardinality(CohortRows(g)))
    /\ (pc \in {"rendered", "failed"} /\ page = "Body Part Comparison") =>
          (view.body_part \in AbsentRegions => pc # "failed")

\* the columns of the sheet that hold a binary indicator: the 12-month column
\* of a body region and the follow-up columns after it
IndicatorColumns ==
    {c \in 1..Len(Raw.columns) :
        Raw.columns[c].name \in BodyPartSet \/ IsUnnamed(Raw.columns[c])}

\* C6: after the load every binary indicator cell holds 'No' where the sheet
\* has 0 and 'Yes' where it has 1, in the 12-month and in the follow-up
\* columns, so the 'Yes' percentage of a follow-up column is the share of 1.
IndicatorsNormalized ==
    /\ Loaded =>
          \A c \in IndicatorColumns : \A j \in 1..file.n :
              /\ Raw.data[c].cells[j] = IntCell(0) => df.data[c].cells[j] = StrCell("No")
              /\ Raw.data[c].cells[j] = IntCell(1) => df.data[c].cells[j] = StrCell("Yes")
    /\ (pc = "rendered" /\ page = "Body Part Comparison") =>
          \A k \in 1..Len(view.char_df) : \A c \in 2..Len(view.related_cols) :
              SameFrac(view.char_df[k].values[c],
                       RawShare(view.related_cols[c], view.char_df[k].group))

\* C7: gender code 1 becomes 'Male', 2 'Female' and any other code 'Unknown',
\* and the gender counts of a cohort add up to the size of the cohort.
GenderNormalized ==
    /\ Loaded =>
          \A j \in 1..file.n :
              LET code == Series(Raw, "GENDER").cells[j]
                  label == Series(df, "GENDER").cells[j]
              IN  label = CASE code = IntCell(1) -> StrCell("Male")
                            [] code = IntCell(2) -> StrCell("Female")
                            [] OTHER -> StrCell("Unknown")
    /\ (pc = "rendered" /\ page = "Overview") =>
          \A g \in Range(Groups) :
              LET rows == {r \in view.demo_df : r.group = g}
                  counts == [v \in {r.value : r \in rows} |->
                                (CHOOSE r \in rows : r.value = v).count]
              IN  Total(counts) = Cardinality(CohortRows(g))

\* C8: the REBA summary of a cohort has a count for each category 0..4, 0 for
\* a category no record of the cohort has, counted over the cohort's records.
RebaSummaryHasAllCategories ==
    (pc = "rendered" /\ page = "REBA Score Analysis") =>
        \A g \in Range(Groups) :
            LET pie == IF g = "General" THEN view.general_pie ELSE view.neuro_pie
                reba == Series(df, "REBA_CATEGORY").cells
            IN  \A k \in 0..4 :
                    /\ IntCell(k) \in DOMAIN pie
                    /\ pie[IntCell(k)] =
                          Cardinality({j \in CohortRows(g) : reba[j] = IntCell(k)})

\* the columns the views read
RequiredColumns ==
    {"GENDER", "BMI CATEGORY", "WORKING PLACE", "THECNNIQUE USED", "REBA_CATEGORY"}
        \cup BodyPartSet

\* C9: a sheet that lacks a required column ends the run in the load error
\* state: it is never loaded and no page runs on it.
MissingColumnStopsLoad ==
    (pc # "start" /\ RequiredColumns \ HeaderNames # {}) => pc = "stopped"

\* the positions of the unnamed columns that directly follow the column of a
\* body part, up to the next named column
FollowUpRun(d, part) ==
    LET at == Loc(d, Named(part))
    IN  {c \in (at + 1)..Len(d.columns) : \A b \in (at + 1)..c : IsUnnamed(d.columns[b])}

\* C10: the follow-up columns found by position belong to the body part: the
\* related columns lie in the run of unnamed columns after the body part, the
\* 7-day column is the column right after the body part, and the Neck Pain tab
\* lists NECK and the unnamed columns after NECK only.
FollowUpsBelongToRegion ==
    /\ (pc = "rendered" /\ page = "Body Part Comparison") =>
          /\ \A c \in 2..Len(view.related_cols) :
                Loc(df, view.related_cols[c]) \in FollowUpRun(df, view.body_part)
          /\ view.seven_day_col # 0 =>
                view.seven_day_col = Loc(df, Named(view.body_part)) + 1
    /\ (pc = "rendered" /\ page = "Pain Incidence") =>
          \A c \in 2..Len(view.neck_cols) :
              Loc(df, view.neck_cols[c]) \in FollowUpRun(df, "NECK")


====
